---- MODULE Spec2Model ----
(***************************************************************************)
(* Model of ecourts_scraper.py: the cause-list command                     *)
(* (download_causelist / download_causelist_with_selenium), the search     *)
(* command (search / search_case_status / parse_and_display_results /      *)
(* download_final_order) and the date interpretation used by the latter.   *)
(*                                                                         *)
(* Text is a sequence of one-character strings, so that str.strip and      *)
(* str.replace are computed character by character.  A document is the     *)
(* sequence of its <table> nodes in document order; a table is the         *)
(* sequence of its <tr> rows; a row is the sequence of its cells, each a   *)
(* <th> or a <td> with its text.  Tables are flat (no table nested in a    *)
(* cell).                                                                  *)
(***************************************************************************)
EXTENDS Integers, Sequences, FiniteSets, TLC

VARIABLES
    \* ---- cause-list command ----
    pc,             \* position of the download_causelist command
    driver,         \* the browser session: "None", "open" or "quit"
    path,           \* which document context is scraped: "frame" or "top"
    all_tables,     \* the <table> nodes of the parsed page source
    soup,           \* "unbound" until the page source has been parsed
    hearings_idx,   \* position of hearings_table in all_tables (0: None)
    headers,        \* header labels of the extraction
    cases,          \* the Records, in the order appended
    save_path,      \* local save_path of the function: "unbound" or a path
    files,          \* JSON files written, oldest first (each a Record list)
    report,         \* console messages printed, oldest first
    ret,            \* value returned by download_causelist_with_selenium
    json_path,      \* json_path of the command after unpacking
    pdf_calls,      \* number of convert_causelist_to_pdf calls
    \* ---- search command ----
    spc,            \* position of the search command
    sdriver,        \* the browser session of search_case_status
    page_source,    \* page source returned to search: "None" or "html"
    download_pdf,   \* the --download-pdf flag
    status_table,   \* rows of the case_status_table (each a list of td texts)
    today,          \* date.today() at the listing determination
    all_details,    \* label -> value mapping built from status_table
    status,         \* text printed after "Status: " ("" before parsing)
    hearing_date_obj, \* parsed Next Hearing Date
    listing,        \* messages printed by the listing determination
    sreport,        \* other console messages of the search command
    \* ---- date interpretation ----
    dpc,            \* "input" or "parsed"
    date_in,        \* [day, month, year, text] the date as written
    date_out        \* result of the date interpretation

clvars == <<pc, driver, path, all_tables, soup, hearings_idx, headers, cases,
            save_path, files, report, ret, json_path, pdf_calls>>
sevars == <<spc, sdriver, page_source, download_pdf, status_table, today,
            all_details, status, hearing_date_obj, listing, sreport>>
dtvars == <<dpc, date_in, date_out>>
vars == <<clvars, sevars, dtvars>>

----------------------------------------------------------------------------
(* Bounds of the model *)
MaxTables == 3
MaxRows == 3
MaxCells == 2
MaxTotalCells == 4

----------------------------------------------------------------------------
(* Text *)

IsSpace(c) == c \in {" ", "\t", "\n"}

RECURSIVE LStrip(_)
LStrip(s) == IF s # <<>> /\ IsSpace(Head(s)) THEN LStrip(Tail(s)) ELSE s

RECURSIVE RStrip(_)
RStrip(s) ==
    IF s # <<>> /\ IsSpace(s[Len(s)]) THEN RStrip(SubSeq(s, 1, Len(s) - 1)) ELSE s

\* str.strip()
Strip(s) == RStrip(LStrip(s))

DigitChars == <<"0", "1", "2", "3", "4", "5", "6", "7", "8", "9">>

\* str(n) for n >= 0
RECURSIVE NumStr(_)
NumStr(n) ==
    IF n < 10 THEN <<DigitChars[n + 1]>>
    ELSE NumStr(n \div 10) \o <<DigitChars[(n % 10) + 1]>>

\* f"Column_{i+1}" with i the 0-based cell position; k = i + 1
ColumnLabel(k) == <<"C", "o", "l", "u", "m", "n", "_">> \o NumStr(k)

Min(a, b) == IF a <= b THEN a ELSE b

SeqsUpTo(S, n) == UNION {[1..k -> S] : k \in 0..n}

----------------------------------------------------------------------------
(* Documents read from the browser *)

CellKinds ==
    { [tag |-> "th", text |-> <<" ", "H", " ">>],
      [tag |-> "td", text |-> <<"a">>],
      [tag |-> "td", text |-> <<" ", "b">>] }

RowSet == SeqsUpTo(CellKinds, MaxCells)

\* the tables of at most n rows and at most c cells in all
RECURSIVE TablesWithin(_, _)
TablesWithin(n, c) ==
    IF n = 0 THEN {<<>>}
    ELSE {<<>>} \cup
         UNION { {<<r>> \o t : t \in TablesWithin(n - 1, c - Len(r))} :
                 r \in {x \in RowSet : Len(x) <= c} }

Tables == TablesWithin(MaxRows, MaxTotalCells)

\* tables of 0..MaxRows one-cell rows, for the documents with several tables
PlainTables == {[i \in 1..n |-> <<[tag |-> "td", text |-> <<"a">>]>>] : n \in 0..MaxRows}

\* driver.page_source parsed by BeautifulSoup: the page's tables
Docs ==
    {<<>>} \cup {<<t>> : t \in Tables}
           \cup UNION {[1..k -> PlainTables] : k \in 2..MaxTables}

----------------------------------------------------------------------------
(* Table Locator *)

\* soup.find('table'): the first table of the document, None (0) if none
LocateFrame(tables) == IF tables = <<>> THEN 0 ELSE 1

\* max(all_tables, key=lambda t: len(t.find_all('tr'))): a later table
\* replaces the current best only when it has strictly more rows
RECURSIVE MaxFrom(_, _, _)
MaxFrom(tables, i, best) ==
    IF i > Len(tables) THEN best
    ELSE IF Len(tables[i]) > Len(tables[best]) THEN MaxFrom(tables, i + 1, i)
         ELSE MaxFrom(tables, i + 1, best)

\* a max() that keeps the last of the tables tied for the greatest row count
RECURSIVE MaxFromLast(_, _, _)
MaxFromLast(tables, i, best) ==
    IF i > Len(tables) THEN best
    ELSE IF Len(tables[i]) >= Len(tables[best]) THEN MaxFromLast(tables, i + 1, i)
         ELSE MaxFromLast(tables, i + 1, best)

LocateTopLast(tables) == IF tables = <<>> THEN 0 ELSE MaxFromLast(tables, 2, 1)

\* max(...) if all_tables else None
LocateTop(tables) == IF tables = <<>> THEN 0 ELSE MaxFrom(tables, 2, 1)

----------------------------------------------------------------------------
(* Table Extractor *)

IsTh(c) == c.tag = "th"
IsTd(c) == c.tag = "td"

\* [x.text.strip() for x in cells]
StripAll(cells) == [i \in 1..Len(cells) |-> Strip(cells[i].text)]

\* hearings_table.find_all('th'): every th of the table, in document order
RECURSIVE FindAllTh(_)
FindAllTh(t) ==
    IF t = <<>> THEN <<>> ELSE SelectSeq(Head(t), IsTh) \o FindAllTh(Tail(t))

\* row.find_all('td')
FindAllTd(row) == SelectSeq(row, IsTd)

\* headers after lines 95-100
HeadersOf(t) ==
    LET th == StripAll(FindAllTh(t)) IN
    IF th # <<>> THEN th
    ELSE IF t # <<>> THEN StripAll(FindAllTd(t[1]))
    ELSE <<>>

\* rows that keep the first row whatever the headers
RowsAll(t) == t

\* rows = find_all('tr')[1:] if headers else find_all('tr')
RowsOf(t) == IF HeadersOf(t) # <<>> /\ t # <<>> THEN Tail(t) ELSE t

\* the dict comprehension of a row: a later duplicate label overwrites
DictOf(keys, vals) ==
    [k \in {keys[i] : i \in 1..Len(keys)} |->
        LET last == CHOOSE i \in 1..Len(keys) :
                        /\ keys[i] = k
                        /\ \A j \in 1..Len(keys) : keys[j] = k => j <= i
        IN vals[last]]

\* a case_data that labels the cells beyond the headers positionally
CaseDataPadded(hdrs, cells) ==
    LET vals == StripAll(cells) IN
    DictOf([i \in 1..Len(cells) |->
               IF i <= Len(hdrs) THEN hdrs[i] ELSE ColumnLabel(i)], vals)

\* case_data of lines 107-110
CaseData(hdrs, cells) ==
    LET vals == StripAll(cells) IN
    IF hdrs # <<>>
    THEN LET n == Min(Len(cells), Len(hdrs)) IN
         DictOf(SubSeq(hdrs, 1, n), SubSeq(vals, 1, n))
    ELSE DictOf([i \in 1..Len(cells) |-> ColumnLabel(i)], vals)

\* the loop of lines 104-111
RECURSIVE CasesOf(_, _)
CasesOf(hdrs, rows) ==
    IF rows = <<>> THEN <<>>
    ELSE LET cells == FindAllTd(Head(rows)) IN
         (IF Len(cells) > 0 THEN <<CaseData(hdrs, cells)>> ELSE <<>>)
            \o CasesOf(hdrs, Tail(rows))

----------------------------------------------------------------------------
(* download_causelist_with_selenium and the download_causelist command *)

CLIdle ==
    /\ pc = "off" /\ driver = "None" /\ path = "none" /\ all_tables = <<>>
    /\ soup = "unbound" /\ hearings_idx = 0 /\ headers = <<>> /\ cases = <<>>
    /\ save_path = "unbound" /\ files = <<>> /\ report = <<>>
    /\ ret = [kind |-> "unset"] /\ json_path = "unset" /\ pdf_calls = 0

CLInit ==
    /\ pc = "load_config" /\ driver = "None" /\ path = "none" /\ all_tables = <<>>
    /\ soup = "unbound" /\ hearings_idx = 0 /\ headers = <<>> /\ cases = <<>>
    /\ save_path = "unbound" /\ files = <<>> /\ report = <<>>
    /\ ret = [kind |-> "unset"] /\ json_path = "unset" /\ pdf_calls = 0

\* the handlers of lines 130-137: report, "if driver: driver.quit()", return None
Handler(msg) ==
    /\ report' = Append(report, msg)
    /\ driver' = IF driver = "open" THEN "quit" ELSE driver
    /\ ret' = [kind |-> "None"]
    /\ pc' = "unpack"

\* load_config() and "if not config: return"
LoadConfig ==
    /\ pc = "load_config"
    /\ \E found \in BOOLEAN :
          IF found
          THEN /\ pc' = "launch"
               /\ report' = report
          ELSE /\ pc' = "done"
               /\ report' = Append(report, "config_not_found")
    /\ UNCHANGED <<driver, path, all_tables, soup, hearings_idx, headers, cases,
                   save_path, files, ret, json_path, pdf_calls>>
    /\ UNCHANGED <<sevars, dtvars>>

\* driver = webdriver.Chrome(), which may raise before driver is bound
Launch ==
    /\ pc = "launch"
    /\ \/ /\ driver' = "open"
          /\ pc' = "get"
          /\ UNCHANGED <<report, ret>>
       \/ Handler("error")
    /\ UNCHANGED <<path, all_tables, soup, hearings_idx, headers, cases,
                   save_path, files, json_path, pdf_calls>>
    /\ UNCHANGED <<sevars, dtvars>>

\* driver.get(BASE_URL + "?p=cause_list/index")
Get ==
    /\ pc = "get"
    /\ \/ /\ pc' = "wait_frame"
          /\ report' = Append(report, "action_required")
          /\ UNCHANGED <<driver, ret>>
       \/ Handler("error")
    /\ UNCHANGED <<path, all_tables, soup, hearings_idx, headers, cases,
                   save_path, files, json_path, pdf_calls>>
    /\ UNCHANGED <<sevars, dtvars>>

\* WebDriverWait(driver, 30).until(frame_to_be_available_and_switch_to_it)
WaitFrame ==
    /\ pc = "wait_frame"
    /\ \/ /\ pc' = "wait_table_frame"
          /\ report' = Append(report, "switched_to_iframe")
       \/ /\ pc' = "wait_table_top"      \* TimeoutException, line 75
          /\ report' = report
    /\ UNCHANGED <<driver, path, all_tables, soup, hearings_idx, headers, cases,
                   save_path, files, ret, json_path, pdf_calls>>
    /\ UNCHANGED <<sevars, dtvars>>

\* WebDriverWait(driver, 60).until(presence of //table), inside the frame
WaitTableFrame ==
    /\ pc = "wait_table_frame"
    /\ \/ /\ pc' = "scrape"
          /\ path' = "frame"
       \/ /\ pc' = "wait_table_top"      \* TimeoutException, line 75
          /\ path' = path
    /\ UNCHANGED <<driver, all_tables, soup, hearings_idx, headers, cases,
                   save_path, files, report, ret, json_path, pdf_calls>>
    /\ UNCHANGED <<sevars, dtvars>>

\* switch_to.default_content() and the wait of lines 79-81; a timeout here
\* is raised inside the inner handler and caught at line 130
WaitTableTop ==
    /\ pc = "wait_table_top"
    /\ \/ /\ pc' = "scrape"
          /\ path' = "top"
          /\ UNCHANGED <<driver, report, ret>>
       \/ /\ Handler("timeout")
          /\ path' = path
    /\ UNCHANGED <<all_tables, soup, hearings_idx, headers, cases,
                   save_path, files, json_path, pdf_calls>>
    /\ UNCHANGED <<sevars, dtvars>>

\* lines 71-73 and 83-88: the table chosen in the active document context
Locate(p, tables) == IF p = "frame" THEN LocateFrame(tables) ELSE LocateTop(tables)

\* "if not hearings_table" (a found Tag is always truthy)
NotFound(idx) == idx = 0

\* a no-table exit that leaves through the timeout handler
NoTableAsTimeout ==
    [msgs |-> <<"timeout">>, ret |-> [kind |-> "None"], driver |-> "quit"]

\* lines 91-92: print "Could not find the hearings table." and return driver
NoTableExit ==
    [msgs |-> <<"no_table">>, ret |-> [kind |-> "driver"], driver |-> "open"]

\* lines 113-137 after the extraction, given whether the file can be written
SaveExit(cs, writeOk) ==
    IF cs # <<>>
    THEN IF writeOk
         THEN [msgs |-> <<"scraped", "success">>, save_path |-> "cause_lists/file",
               written |-> <<cs>>,
               ret |-> [kind |-> "pair", save_path |-> "cause_lists/file"],
               driver |-> "open"]
         ELSE \* open/json.dump raises: handler of line 134
              [msgs |-> <<"scraped", "error">>, save_path |-> "cause_lists/file",
               written |-> <<>>, ret |-> [kind |-> "None"], driver |-> "quit"]
    ELSE \* "return driver,save_path" reads the unbound save_path:
         \* UnboundLocalError, handler of line 134
         [msgs |-> <<"scraped", "no_cases", "error">>, save_path |-> "unbound",
          written |-> <<>>, ret |-> [kind |-> "None"], driver |-> "quit"]

\* page_source is read after the wait returned, from a page the user is
\* still operating: any document, also one without a table
Scrape ==
    /\ pc = "scrape"
    /\ \E doc \in Docs, writeOk \in BOOLEAN :
          LET idx == Locate(path, doc) IN
          /\ all_tables' = doc
          /\ soup' = "parsed"
          /\ hearings_idx' = idx
          /\ IF NotFound(idx)
             THEN /\ headers' = headers
                  /\ cases' = cases
                  /\ save_path' = save_path
                  /\ files' = files
                  /\ report' = report \o NoTableExit.msgs
                  /\ ret' = NoTableExit.ret
                  /\ driver' = NoTableExit.driver
             ELSE LET hdrs == HeadersOf(doc[idx])
                      cs == CasesOf(hdrs, RowsOf(doc[idx]))
                      out == SaveExit(cs, writeOk)
                  IN /\ headers' = hdrs
                     /\ cases' = cs
                     /\ save_path' = out.save_path
                     /\ files' = files \o out.written
                     /\ report' = report \o out.msgs
                     /\ ret' = out.ret
                     /\ driver' = out.driver
    /\ pc' = "unpack"
    /\ UNCHANGED <<path, json_path, pdf_calls>>
    /\ UNCHANGED <<sevars, dtvars>>

\* "driver,json_path = ..." with a 2-tuple
UnpackPair ==
    /\ pc = "unpack"
    /\ ret.kind = "pair"
    /\ json_path' = ret.save_path
    /\ pc' = "convert"
    /\ UNCHANGED <<driver, path, all_tables, soup, hearings_idx, headers, cases,
                   save_path, files, report, ret, pdf_calls>>
    /\ UNCHANGED <<sevars, dtvars>>

\* "driver,json_path = ..." with None or a WebDriver: TypeError, the command
\* aborts at line 329
UnpackTypeError ==
    /\ pc = "unpack"
    /\ ret.kind # "pair"
    /\ pc' = "aborted"
    /\ UNCHANGED <<driver, path, all_tables, soup, hearings_idx, headers, cases,
                   save_path, files, report, ret, json_path, pdf_calls>>
    /\ UNCHANGED <<sevars, dtvars>>

\* "if json_path: convert_causelist_to_pdf(json_path)"
Convert ==
    /\ pc = "convert"
    /\ pdf_calls' = IF json_path # "" THEN pdf_calls + 1 ELSE pdf_calls
    /\ pc' = "close"
    /\ UNCHANGED <<driver, path, all_tables, soup, hearings_idx, headers, cases,
                   save_path, files, report, ret, json_path>>
    /\ UNCHANGED <<sevars, dtvars>>

\* "if driver: ... driver.quit()"
Close ==
    /\ pc = "close"
    /\ driver' = "quit"
    /\ report' = Append(report, "closing")
    /\ pc' = "done"
    /\ UNCHANGED <<path, all_tables, soup, hearings_idx, headers, cases,
                   save_path, files, ret, json_path, pdf_calls>>
    /\ UNCHANGED <<sevars, dtvars>>

----------------------------------------------------------------------------
(* Date interpretation: lines 226-227 *)

\* str.replace(pat, ''): every non-overlapping occurrence, left to right
RECURSIVE Replace(_, _)
Replace(s, pat) ==
    IF Len(s) < Len(pat) THEN s
    ELSE IF SubSeq(s, 1, Len(pat)) = pat
         THEN Replace(SubSeq(s, Len(pat) + 1, Len(s)), pat)
         ELSE <<Head(s)>> \o Replace(Tail(s), pat)

\* line 226: .replace('st','').replace('nd','').replace('rd','').replace('th','')
CleanDate(s) ==
    Replace(Replace(Replace(Replace(s, <<"s", "t">>), <<"n", "d">>),
                    <<"r", "d">>), <<"t", "h">>)

MonthNames ==
    << <<"J", "a", "n", "u", "a", "r", "y">>,
       <<"F", "e", "b", "r", "u", "a", "r", "y">>,
       <<"M", "a", "r", "c", "h">>,
       <<"A", "p", "r", "i", "l">>,
       <<"M", "a", "y">>,
       <<"J", "u", "n", "e">>,
       <<"J", "u", "l", "y">>,
       <<"A", "u", "g", "u", "s", "t">>,
       <<"S", "e", "p", "t", "e", "m", "b", "e", "r">>,
       <<"O", "c", "t", "o", "b", "e", "r">>,
       <<"N", "o", "v", "e", "m", "b", "e", "r">>,
       <<"D", "e", "c", "e", "m", "b", "e", "r">> >>

UpperChars == <<"A", "B", "C", "D", "E", "F", "G", "H", "I", "J", "K", "L", "M", "N", "O", "P", "Q", "R", "S", "T", "U", "V", "W", "X", "Y", "Z">>
LowerChars == <<"a", "b", "c", "d", "e", "f", "g", "h", "i", "j", "k", "l", "m", "n", "o", "p", "q", "r", "s", "t", "u", "v", "w", "x", "y", "z">>

\* str.lower() of one character (the %B directive matches ignoring case)
LowerChar(c) ==
    IF \E i \in 1..26 : UpperChars[i] = c
    THEN LowerChars[CHOOSE i \in 1..26 : UpperChars[i] = c]
    ELSE c

LowerStr(s) == [i \in 1..Len(s) |-> LowerChar(s[i])]

IsDigit(c) == \E i \in 1..10 : DigitChars[i] = c
DigitVal(c) == (CHOOSE i \in 1..10 : DigitChars[i] = c) - 1

IsLeap(y) == (y % 4 = 0) /\ ((y % 100 # 0) \/ (y % 400 = 0))

\* days of month m of year y
DaysIn(m, y) ==
    IF m = 2 THEN (IF IsLeap(y) THEN 29 ELSE 28)
    ELSE IF m \in {4, 6, 9, 11} THEN 30 ELSE 31

NoDate == [ok |-> FALSE, year |-> 0, month |-> 0, day |-> 0]

\* length of the %d token at the start of s: 3[0-1]|[1-2]\d|0[1-9]|[1-9]| [1-9],
\* in that order; 0 if none matches
DayTokenLen(s) ==
    LET two == Len(s) >= 2
        c1 == s[1]
        c2 == s[2]
    IN IF two /\ c1 = "3" /\ c2 \in {"0", "1"} THEN 2
       ELSE IF two /\ c1 \in {"1", "2"} /\ IsDigit(c2) THEN 2
       ELSE IF two /\ c1 = "0" /\ IsDigit(c2) /\ c2 # "0" THEN 2
       ELSE IF Len(s) >= 1 /\ IsDigit(c1) /\ c1 # "0" THEN 1
       ELSE IF two /\ c1 = " " /\ IsDigit(c2) /\ c2 # "0" THEN 2
       ELSE 0

\* value of a token of digits, a leading space ignored
RECURSIVE TokenVal(_)
TokenVal(s) ==
    IF s = <<>> THEN 0
    ELSE IF s[Len(s)] = " " THEN 0
    ELSE TokenVal(SubSeq(s, 1, Len(s) - 1)) * 10 + DigitVal(s[Len(s)])

\* the month whose full name starts s, ignoring case; 0 if none
MonthAt(s) ==
    LET hit(m) == /\ Len(s) >= Len(MonthNames[m])
                  /\ LowerStr(SubSeq(s, 1, Len(MonthNames[m]))) = LowerStr(MonthNames[m])
    IN IF \E m \in 1..12 : hit(m) THEN CHOOSE m \in 1..12 : hit(m) ELSE 0

\* datetime.strptime(s, '%d %B %Y').date(); ok = FALSE stands for ValueError
Strptime(s) ==
    LET n == DayTokenLen(s)
        r1 == SubSeq(s, n + 1, Len(s))
        r2 == LStrip(r1)
        m == MonthAt(r2)
        r3 == IF m = 0 THEN <<>> ELSE SubSeq(r2, Len(MonthNames[m]) + 1, Len(r2))
        r4 == LStrip(r3)
        d == TokenVal(SubSeq(s, 1, n))
        y == TokenVal(r4)
    IN IF /\ n > 0
          /\ Len(r2) < Len(r1)
          /\ m > 0
          /\ Len(r4) < Len(r3)
          /\ Len(r4) = 4
          /\ \A i \in 1..4 : IsDigit(r4[i])
          /\ y >= 1
          /\ d <= DaysIn(m, y)
       THEN [ok |-> TRUE, year |-> y, month |-> m, day |-> d]
       ELSE NoDate

\* lines 224-229: hearing_date_obj, None (NoDate) on ValueError
ParseHearingDate(str) == Strptime(CleanDate(str))

\* the date written as "<day><suffix> <month name> <year>", the day
\* zero-padded to two digits when pad
DateText(d, suf, m, y, pad) ==
    (IF pad /\ d < 10 THEN <<"0">> ELSE <<>>) \o NumStr(d) \o suf
        \o <<" ">> \o MonthNames[m] \o <<" ">> \o NumStr(y)

----------------------------------------------------------------------------
(* Case-Status Field Interpreter: parse_and_display_results *)

MaxStatusRows == 2

NextHearingDate == <<"N", "e", "x", "t", " ", "H", "e", "a", "r", "i", "n", "g", " ", "D", "a", "t", "e">>
DecisionDate == <<"D", "e", "c", "i", "s", "i", "o", "n", " ", "D", "a", "t", "e">>
CaseStatus == <<"C", "a", "s", "e", " ", "S", "t", "a", "t", "u", "s">>
CaseStage == <<"C", "a", "s", "e", " ", "S", "t", "a", "g", "e">>
TxtPending == <<"P", "e", "n", "d", "i", "n", "g">>
TxtDisposed == <<"D", "i", "s", "p", "o", "s", "e", "d">>
TxtUnknown == <<"U", "n", "k", "n", "o", "w", "n", " ", "(", "L", "a", "y", "o", "u", "t", " ", "m", "a", "y", " ", "h", "a", "v", "e", " ", "c", "h", "a", "n", "g", "e", "d", ")">>
TxtNA == <<"N", "/", "A">>
TxtCaseDisposed == <<"C", "a", "s", "e", " ", "d", "i", "s", "p", "o", "s", "e", "d">>
TxtEvidence == <<"E", "v", "i", "d", "e", "n", "c", "e">>

\* date.today() values: mid-month, end of year, end of February in a leap year
Todays ==
    { [ok |-> TRUE, year |-> 2025, month |-> 3, day |-> 10],
      [ok |-> TRUE, year |-> 2025, month |-> 12, day |-> 31],
      [ok |-> TRUE, year |-> 2024, month |-> 2, day |-> 28] }

\* texts found in the value cell of a "Next Hearing Date" row
HearingValues ==
    { DateText(10, <<>>, 3, 2025, FALSE),
      DateText(11, <<"t", "h">>, 3, 2025, FALSE),
      DateText(9, <<"t", "h">>, 3, 2025, TRUE),
      DateText(12, <<>>, 3, 2025, FALSE),
      DateText(1, <<"s", "t">>, 1, 2026, FALSE),
      DateText(29, <<>>, 2, 2024, FALSE),
      DateText(1, <<"s", "t">>, 8, 2025, FALSE),
      DateText(32, <<"n", "d">>, 3, 2025, FALSE),
      <<>>,
      <<" ">> }

\* the rows of a case_status_table, each the texts of its td cells
StatusRowSet ==
    {<<<<" ">> \o NextHearingDate \o <<" ">>, v>> : v \in HearingValues}
    \cup { <<DecisionDate, DateText(5, <<"t", "h">>, 2, 2024, FALSE)>>,
           <<CaseStatus, TxtCaseDisposed>>,
           <<CaseStatus, TxtPending>>,
           <<CaseStage, <<" ">> \o TxtEvidence>>,
           <<CaseStage, TxtNA, TxtEvidence>>,
           <<NextHearingDate>>,
           <<>> }

StatusTables == SeqsUpTo(StatusRowSet, MaxStatusRows)

\* lines 199-205: rows with at least two cells, a later label overwrites
RECURSIVE DetailPairs(_)
DetailPairs(rows) ==
    IF rows = <<>> THEN <<>>
    ELSE (IF Len(Head(rows)) >= 2
          THEN <<<<Strip(Head(rows)[1]), Strip(Head(rows)[2])>>>>
          ELSE <<>>) \o DetailPairs(Tail(rows))

AllDetails(rows) ==
    LET ps == DetailPairs(rows) IN
    DictOf([i \in 1..Len(ps) |-> ps[i][1]], [i \in 1..Len(ps) |-> ps[i][2]])

\* all_details.get(key, default)
DictGet(d, key, default) == IF key \in DOMAIN d THEN d[key] ELSE default

\* a status line that ignores the 'Case Status' field
StatusTextFixed(d) ==
    IF NextHearingDate \in DOMAIN d THEN TxtPending
    ELSE IF DecisionDate \in DOMAIN d THEN TxtDisposed
    ELSE TxtUnknown

\* lines 209-217: the text printed after "Status: "
StatusText(d) ==
    IF NextHearingDate \in DOMAIN d THEN TxtPending
    ELSE IF DecisionDate \in DOMAIN d THEN DictGet(d, CaseStatus, TxtDisposed)
    ELSE TxtUnknown

\* a tomorrow that does not roll over the end of the month
TomorrowNoRoll(t) == [t EXCEPT !.day = t.day + 1]

\* today + timedelta(days=1)
Tomorrow(t) ==
    IF t.day < DaysIn(t.month, t.year) THEN [t EXCEPT !.day = t.day + 1]
    ELSE IF t.month < 12 THEN [t EXCEPT !.day = 1, !.month = t.month + 1]
    ELSE [t EXCEPT !.day = 1, !.month = 1, !.year = t.year + 1]

\* date comparison: by year, then month, then day
DateGt(a, b) ==
    \/ a.year > b.year
    \/ a.year = b.year /\ a.month > b.month
    \/ a.year = b.year /\ a.month = b.month /\ a.day > b.day

Msg(m, a) == [msg |-> m, arg |-> a]

\* lines 221-245: the messages of the listing determination
ListingOf(d, t) ==
    LET str == DictGet(d, NextHearingDate, <<>>)
        obj == ParseHearingDate(str)
        tomorrow == Tomorrow(t)
    IN IF str # <<>>
       THEN (IF obj.ok THEN <<>> ELSE <<Msg("could_not_parse", str)>>)
            \o (IF ~obj.ok THEN <<>>
                ELSE IF obj = t \/ obj = tomorrow
                THEN <<Msg("listed", <<>>), Msg("listing_date", str),
                       Msg("purpose", DictGet(d, CaseStage, TxtNA))>>
                ELSE IF DateGt(obj, tomorrow)
                THEN <<Msg("not_listed", <<>>), Msg("next_scheduled", str)>>
                ELSE <<Msg("not_listed_past", <<>>)>>)
       ELSE <<Msg("no_next_hearing_date", <<>>)>>

----------------------------------------------------------------------------
(* search_case_status, download_final_order and the search command *)

SEIdle ==
    /\ spc = "off" /\ sdriver = "None" /\ page_source = "None"
    /\ download_pdf = FALSE /\ status_table = <<>> /\ today = NoDate
    /\ all_details = <<>> /\ status = <<>> /\ hearing_date_obj = NoDate
    /\ listing = <<>> /\ sreport = <<>>

SEInit ==
    /\ spc = "launch" /\ sdriver = "None" /\ page_source = "None"
    /\ download_pdf \in BOOLEAN /\ status_table = <<>> /\ today = NoDate
    /\ all_details = <<>> /\ status = <<>> /\ hearing_date_obj = NoDate
    /\ listing = <<>> /\ sreport = <<>>

\* the handlers of lines 174-184: report, "if driver: driver.quit()",
\* return None, None
SHandler(msg) ==
    /\ sreport' = Append(sreport, msg)
    /\ sdriver' = IF sdriver = "open" THEN "quit" ELSE sdriver
    /\ page_source' = "None"
    /\ spc' = "returned"

\* driver = webdriver.Chrome(); driver.get(BASE_URL)
SLaunch ==
    /\ spc = "launch"
    /\ \/ /\ sdriver' = "open"
          /\ spc' = "navigate"
          /\ UNCHANGED <<page_source, sreport>>
       \/ SHandler("error")
    /\ UNCHANGED <<download_pdf, status_table, today, all_details, status,
                   hearing_date_obj, listing>>
    /\ UNCHANGED <<clvars, dtvars>>

\* line 157: wait until the CNR field is clickable, click it
SNavigate ==
    /\ spc = "navigate"
    /\ \/ /\ spc' = "enter_cnr"
          /\ UNCHANGED <<sdriver, page_source, sreport>>
       \/ SHandler("timeout")
       \/ SHandler("error")
    /\ UNCHANGED <<download_pdf, status_table, today, all_details, status,
                   hearing_date_obj, listing>>
    /\ UNCHANGED <<clvars, dtvars>>

\* lines 160-161: wait for the CNR field, send the CNR
SEnterCnr ==
    /\ spc = "enter_cnr"
    /\ \/ /\ spc' = "wait_results"
          /\ sreport' = Append(sreport, "action_required")
          /\ UNCHANGED <<sdriver, page_source>>
       \/ SHandler("timeout")
    /\ UNCHANGED <<download_pdf, status_table, today, all_details, status,
                   hearing_date_obj, listing>>
    /\ UNCHANGED <<clvars, dtvars>>

\* lines 168-172: wait for the case_status_table, return driver, page_source
SWaitResults ==
    /\ spc = "wait_results"
    /\ \/ /\ page_source' = "html"
          /\ spc' = "returned"
          /\ sreport' = Append(sreport, "details_loaded")
          /\ UNCHANGED sdriver
       \/ SHandler("timeout")
    /\ UNCHANGED <<download_pdf, status_table, today, all_details, status,
                   hearing_date_obj, listing>>
    /\ UNCHANGED <<clvars, dtvars>>

\* "if page_source:" false: nothing to parse
SkipParse ==
    /\ spc = "returned"
    /\ page_source = "None"
    /\ spc' = "close"
    /\ UNCHANGED <<sdriver, page_source, download_pdf, status_table, today,
                   all_details, status, hearing_date_obj, listing, sreport>>
    /\ UNCHANGED <<clvars, dtvars>>

\* parse_and_display_results when soup.find finds no case_status_table
ParseNoTable ==
    /\ spc = "returned"
    /\ page_source = "html"
    /\ sreport' = Append(sreport, "critical_no_status_table")
    /\ spc' = "final_order"
    /\ UNCHANGED <<sdriver, page_source, download_pdf, status_table, today,
                   all_details, status, hearing_date_obj, listing>>
    /\ UNCHANGED <<clvars, dtvars>>

\* parse_and_display_results on a case_status_table, lines 199-245
ParseAndDisplay ==
    /\ spc = "returned"
    /\ page_source = "html"
    /\ \E rows \in StatusTables, t \in Todays :
          LET d == AllDetails(rows) IN
          /\ status_table' = rows
          /\ today' = t
          /\ all_details' = d
          /\ status' = StatusText(d)
          /\ hearing_date_obj' = ParseHearingDate(DictGet(d, NextHearingDate, <<>>))
          /\ listing' = ListingOf(d, t)
    /\ sreport' = Append(sreport, "case_details")
    /\ spc' = "final_order"
    /\ UNCHANGED <<sdriver, page_source, download_pdf>>
    /\ UNCHANGED <<clvars, dtvars>>

\* "if download_pdf: download_final_order(...)": every failure inside is
\* caught and reported there
FinalOrder ==
    /\ spc = "final_order"
    /\ IF download_pdf
       THEN \E out \in {"pdf_saved", "no_final_orders", "no_pdf_link",
                        "server_error", "unexpected_error"} :
               sreport' = Append(sreport, out)
       ELSE sreport' = sreport
    /\ spc' = "close"
    /\ UNCHANGED <<sdriver, page_source, download_pdf, status_table, today,
                   all_details, status, hearing_date_obj, listing>>
    /\ UNCHANGED <<clvars, dtvars>>

\* "if driver: ... driver.quit()"; driver is None after a handler
SClose ==
    /\ spc = "close"
    /\ sdriver' = IF page_source = "html" THEN "quit" ELSE sdriver
    /\ spc' = "done"
    /\ UNCHANGED <<page_source, download_pdf, status_table, today,
                   all_details, status, hearing_date_obj, listing, sreport>>
    /\ UNCHANGED <<clvars, dtvars>>

----------------------------------------------------------------------------
(* The date interpretation on its own *)

MinYear == 2024
MaxYear == 2025
Suffixes == {<<>>, <<"s", "t">>, <<"n", "d">>, <<"r", "d">>, <<"t", "h">>}

DTIdle == dpc = "off" /\ date_in = NoDate /\ date_out = NoDate

\* every valid calendar date, with each suffix, the day padded or not
DTInit ==
    /\ dpc = "input"
    /\ \E y \in MinYear..MaxYear, m \in 1..12, suf \in Suffixes, pad \in BOOLEAN :
          \E d \in 1..DaysIn(m, y) :
             date_in = [year |-> y, month |-> m, day |-> d,
                        text |-> DateText(d, suf, m, y, pad)]
    /\ date_out = NoDate

InterpretDate ==
    /\ dpc = "input"
    /\ date_out' = ParseHearingDate(date_in.text)
    /\ dpc' = "parsed"
    /\ UNCHANGED date_in
    /\ UNCHANGED <<clvars, sevars>>

----------------------------------------------------------------------------
(* Specifications *)

Init == CLInit /\ SEIdle /\ DTIdle

Next ==
    \/ LoadConfig \/ Launch \/ Get \/ WaitFrame \/ WaitTableFrame
    \/ WaitTableTop \/ Scrape \/ UnpackPair \/ UnpackTypeError
    \/ Convert \/ Close

Spec == Init /\ [][Next]_vars

SearchInit == CLIdle /\ SEInit /\ DTIdle

SearchNext ==
    \/ SLaunch \/ SNavigate \/ SEnterCnr \/ SWaitResults \/ SkipParse
    \/ ParseNoTable \/ ParseAndDisplay \/ FinalOrder \/ SClose

SearchSpec == SearchInit /\ [][SearchNext]_vars

DateInit == CLIdle /\ SEIdle /\ DTInit

DateNext == InterpretDate

DateSpec == DateInit /\ [][DateNext]_vars

----------------------------------------------------------------------------
(* Properties of the cause-list command (specification Spec) *)

Printed(msg) == \E i \in 1..Len(report) : report[i] = msg

Scraped == soup = "parsed"
Located == Scraped /\ hearings_idx # 0
TheTable == all_tables[hearings_idx]

HasTd(row) == \E i \in 1..Len(row) : row[i].tag = "td"
HasTh(row) == \E i \in 1..Len(row) : row[i].tag = "th"
NoThIn(t) == \A i \in 1..Len(t) : ~HasTh(t[i])
TdCount(row) == Cardinality({i \in 1..Len(row) : row[i].tag = "td"})

\* the k-th row, counted from row `from`, that has a data cell
NthDataRow(t, from, k) ==
    CHOOSE i \in from..Len(t) :
        /\ HasTd(t[i])
        /\ Cardinality({j \in from..i : HasTd(t[j])}) = k

DataRowCount(t, from) == Cardinality({i \in from..Len(t) : HasTd(t[i])})

ColumnKeys(n) == {ColumnLabel(j) : j \in 1..n}

\* C1: on every exit path of a cause-list run that launched a browser
\* session, the session has been released (driver.quit called) when the
\* command returns or aborts.
C1_SessionReleased ==
    (pc \in {"done", "aborted"} /\ driver # "None") => driver = "quit"

\* C3: when the retrieved document contains zero tables, the extraction
\* reports "could not find the hearings table", not a timeout, and neither
\* completes as a success (with or without records) nor writes a file or
\* reaches the PDF step.
C3_NoTableFound ==
    (Scraped /\ all_tables = <<>>) =>
        /\ Printed("no_table")
        /\ ~Printed("timeout") /\ ~Printed("scraped") /\ ~Printed("success")
        /\ ret.kind # "pair"
        /\ cases = <<>> /\ files = <<>> /\ pdf_calls = 0
        /\ pc \in {"unpack", "aborted"}

C3_Witness ==
    Scraped /\ all_tables = <<>> /\ pc = "aborted" /\ Printed("no_table")

\* the chosen table has the greatest row count and is the first such table
FirstLargest(tables, idx) ==
    /\ idx \in 1..Len(tables)
    /\ \A j \in 1..Len(tables) : Len(tables[j]) <= Len(tables[idx])
    /\ \A j \in 1..(idx - 1) : Len(tables[j]) < Len(tables[idx])

\* C4 (as claimed): with more than one table in the active document context,
\* the chosen table is the first of those with the greatest row count, on
\* the frame path and on the top-level path.
C4_LargestTableChosen ==
    (Scraped /\ Len(all_tables) > 1) => FirstLargest(all_tables, hearings_idx)

\* C4 (amended): with more than one table, the top-level fallback path
\* chooses the first of the tables with the greatest row count, and the
\* frame path chooses the first table in document order.
C4_LargestOnTopPathFirstInFrame ==
    (Scraped /\ Len(all_tables) > 1) =>
        /\ path = "top" => FirstLargest(all_tables, hearings_idx)
        /\ path = "frame" => hearings_idx = 1

C4_Witness ==
    /\ Scraped /\ Len(all_tables) > 2 /\ path = "top"
    /\ hearings_idx = 2
    /\ Len(all_tables[3]) = Len(all_tables[2])
    /\ Len(all_tables[1]) < Len(all_tables[2])

\* C5 (as claimed): for a table without header cells, a first row that can
\* serve as headers gives the headers (its trimmed data cells) and is
\* excluded from the data rows; a first row that cannot (the table has
\* exactly one row, or its first row has no data cell) gives the labels
\* Column_1..Column_N, N the widest row's cell count, and every row with
\* data cells, the first included, is emitted as a Record.
C5_HeaderlessTable ==
    (Located /\ NoThIn(TheTable)) =>
        LET t == TheTable
            widest == CHOOSE n \in 0..MaxCells :
                         /\ \A i \in 1..Len(t) : Len(t[i]) <= n
                         /\ (n > 0 => \E i \in 1..Len(t) : Len(t[i]) = n)
        IN IF Len(t) >= 2 /\ HasTd(t[1])
           THEN /\ headers = [i \in 1..Len(t[1]) |-> Strip(t[1][i].text)]
                /\ Len(cases) = DataRowCount(t, 2)
           ELSE /\ Len(cases) = DataRowCount(t, 1)
                /\ \A k \in 1..Len(cases) : DOMAIN cases[k] \subseteq ColumnKeys(widest)

\* C5 (amended): for a table without header cells, a first row with at
\* least one data cell gives the headers (its trimmed data cells) and is
\* excluded from the data rows, also when it is the only row (no Record is
\* produced then); when the first row has no data cell, each row with data
\* cells is emitted as a Record labelled Column_1..Column_k, k that row's own
\* cell count.
C5_HeaderlessAsCoded ==
    (Located /\ NoThIn(TheTable)) =>
        LET t == TheTable IN
        IF t # <<>> /\ HasTd(t[1])
        THEN /\ headers = [i \in 1..Len(t[1]) |-> Strip(t[1][i].text)]
             /\ Len(cases) = DataRowCount(t, 2)
             /\ \A k \in 1..Len(cases) :
                   \A c \in 1..Min(Len(t[NthDataRow(t, 2, k)]), Len(headers)) :
                      /\ headers[c] \in DOMAIN cases[k]
                      /\ \E c2 \in c..Len(t[NthDataRow(t, 2, k)]) :
                            /\ c2 <= Len(headers) /\ headers[c2] = headers[c]
                            /\ cases[k][headers[c]] = Strip(t[NthDataRow(t, 2, k)][c2].text)
        ELSE /\ headers = <<>>
             /\ Len(cases) = DataRowCount(t, 1)
             /\ \A k \in 1..Len(cases) :
                   LET row == t[NthDataRow(t, 1, k)] IN
                   /\ DOMAIN cases[k] = ColumnKeys(Len(row))
                   /\ \A c \in 1..Len(row) : cases[k][ColumnLabel(c)] = Strip(row[c].text)

C5_Witness ==
    /\ Located /\ NoThIn(TheTable)
    /\ Len(TheTable) = 1 /\ Len(TheTable[1]) = 2
    /\ headers = <<<<"a">>, <<"b">>>>
    /\ cases = <<>> /\ Printed("no_cases")

\* the row the i-th Record was made from
RowOfCase(i) ==
    TheTable[NthDataRow(TheTable, IF headers # <<>> THEN 2 ELSE 1, i)]

\* C6 (as claimed): all Records of one extraction have the same key set.
C6_SameKeySet ==
    \A i, j \in 1..Len(cases) : DOMAIN cases[i] = DOMAIN cases[j]

\* C6 (amended): every Record's key set is made of the labels of the first
\* min(c, h) entries of the extraction's single header list, c the data-cell
\* count of its row and h the number of headers, so it is a subset of the
\* header labels and rows with equally many cells get the same key set; in
\* the positional fallback it is Column_1..Column_c.
C6_KeysArePrefixOfHeaders ==
    Located =>
        \A i \in 1..Len(cases) :
            LET c == TdCount(RowOfCase(i)) IN
            IF headers # <<>>
            THEN DOMAIN cases[i] = {headers[j] : j \in 1..Min(c, Len(headers))}
            ELSE DOMAIN cases[i] = ColumnKeys(c)

C6_Witness ==
    /\ Located
    /\ \E i, j \in 1..Len(cases) : DOMAIN cases[i] # DOMAIN cases[j]
    /\ files # <<>>

\* a row that carries none of the header cells and has a data cell
PlainDataRow(row) == HasTd(row) /\ ~HasTh(row)

\* C9: every row with at least one data cell that is not a row the headers
\* were taken from (a row holding th cells or, in a table without th cells,
\* the first row) yields exactly one Record, the Records in row order: no
\* such row is dropped, wherever the header cells sit.
C9_NoDataRowDropped ==
    Located =>
        LET t == TheTable
            from == IF NoThIn(t) /\ t # <<>> /\ HasTd(t[1]) THEN 2 ELSE 1
            kept == {i \in from..Len(t) : PlainDataRow(t[i])}
        IN \E f \in [kept -> 1..Len(cases)] :
              /\ \A i, j \in kept : i < j => f[i] < f[j]
              /\ \A i \in kept :
                    \A key \in DOMAIN cases[f[i]] :
                       \E c \in 1..Len(t[i]) : cases[f[i]][key] = Strip(t[i][c].text)

\* C10: every outcome of download_causelist_with_selenium is a (browser,
\* output path) pair the command can unpack, so the command never aborts,
\* and the PDF conversion runs only after the JSON file has been written.
C10_ResultConsumable ==
    /\ ret.kind \in {"unset", "pair"}
    /\ pc # "aborted"
    /\ pdf_calls > 0 => files # <<>>

----------------------------------------------------------------------------
(* Properties of the date interpretation (specification DateSpec) *)

\* C2: every valid calendar date written "<day><suffix> <month name> <year>"
\* parses to exactly that day, month and year, for every suffix and month.
C2_DateParsesAsWritten ==
    dpc = "parsed" =>
        date_out = [ok |-> TRUE, year |-> date_in.year,
                    month |-> date_in.month, day |-> date_in.day]

----------------------------------------------------------------------------
(* Properties of the case-status interpreter (specification SearchSpec) *)

Parsed == today.ok

HasKey(k) == k \in DOMAIN all_details

\* days from 1 January of year 1 to the date
DaysBeforeYear(y) == (y - 1) * 365 + (y - 1) \div 4 - (y - 1) \div 100 + (y - 1) \div 400

RECURSIVE DaysBeforeMonth(_, _)
DaysBeforeMonth(y, m) ==
    IF m = 1 THEN 0 ELSE DaysBeforeMonth(y, m - 1) + DaysIn(m - 1, y)

Ordinal(d) == DaysBeforeYear(d.year) + DaysBeforeMonth(d.year, d.month) + d.day

\* C7: the listing determination yields exactly one outcome: D = today or
\* today+1 gives "listed" with the raw date string and the Case Stage as
\* purpose, D > today+1 gives not-listed-future, D < today gives
\* not-listed-past, a missing or empty value gives Unknown, and a value that
\* fails to parse is reported and gives Unknown, the command going on to
\* its end.
C7_ListingDetermination ==
    Parsed =>
        LET v == IF HasKey(NextHearingDate) THEN all_details[NextHearingDate] ELSE <<>>
            D == hearing_date_obj
            purpose == IF HasKey(CaseStage) THEN all_details[CaseStage] ELSE TxtNA
        IN /\ spc \in {"final_order", "close", "done"}
           /\ IF v = <<>>
              THEN listing = <<Msg("no_next_hearing_date", <<>>)>>
              ELSE IF ~D.ok
              THEN listing = <<Msg("could_not_parse", v)>>
              ELSE IF Ordinal(D) = Ordinal(today) \/ Ordinal(D) = Ordinal(today) + 1
              THEN listing = <<Msg("listed", <<>>), Msg("listing_date", v),
                               Msg("purpose", purpose)>>
              ELSE IF Ordinal(D) > Ordinal(today) + 1
              THEN listing = <<Msg("not_listed", <<>>), Msg("next_scheduled", v)>>
              ELSE listing = <<Msg("not_listed_past", <<>>)>>

C7_Witness ==
    /\ Parsed /\ spc = "done"
    /\ hearing_date_obj.ok
    /\ Ordinal(hearing_date_obj) = Ordinal(today) + 1
    /\ hearing_date_obj.month # today.month
    /\ listing[1] = Msg("listed", <<>>)

\* C8 (as claimed): the reported status is Pending exactly when the key
\* 'Next Hearing Date' is present, Disposed exactly when it is absent and
\* 'Decision Date' is present, Unknown otherwise; a table with 'Decision
\* Date' and no 'Next Hearing Date' has listing determination Unknown.
C8_StatusKind ==
    Parsed =>
        /\ status = TxtPending <=> HasKey(NextHearingDate)
        /\ status = TxtDisposed <=> (~HasKey(NextHearingDate) /\ HasKey(DecisionDate))
        /\ status = TxtUnknown <=> (~HasKey(NextHearingDate) /\ ~HasKey(DecisionDate))
        /\ (~HasKey(NextHearingDate) /\ HasKey(DecisionDate))
              => listing = <<Msg("no_next_hearing_date", <<>>)>>

\* C8 (amended): with later duplicate labels overwriting earlier ones, the
\* status is reported as Pending when the key 'Next Hearing Date' is
\* present; when it is absent and 'Decision Date' is present the report
\* takes the Decision Date branch, printing the value of the 'Case Status'
\* field if the table has one and Disposed otherwise, with listing
\* determination Unknown; otherwise it is reported as Unknown.
C8_StatusAsCoded ==
    Parsed =>
        /\ HasKey(NextHearingDate) => status = TxtPending
        /\ (~HasKey(NextHearingDate) /\ HasKey(DecisionDate)) =>
              /\ status = (IF HasKey(CaseStatus) THEN all_details[CaseStatus]
                           ELSE TxtDisposed)
              /\ listing = <<Msg("no_next_hearing_date", <<>>)>>
        /\ (~HasKey(NextHearingDate) /\ ~HasKey(DecisionDate)) => status = TxtUnknown
        /\ \A i \in 1..Len(status_table) :
              Len(status_table[i]) >= 2 =>
                 /\ HasKey(Strip(status_table[i][1]))
                 /\ (\A j \in (i + 1)..Len(status_table) :
                        Len(status_table[j]) >= 2 =>
                            Strip(status_table[j][1]) # Strip(status_table[i][1]))
                    => all_details[Strip(status_table[i][1])] = Strip(status_table[i][2])

C8_Witness ==
    /\ Parsed
    /\ ~HasKey(NextHearingDate) /\ HasKey(DecisionDate) /\ HasKey(CaseStatus)
    /\ status = TxtCaseDisposed
    /\ listing = <<Msg("no_next_hearing_date", <<>>)>>

====
